---- MODULE Spec2Model ----
(***************************************************************************)
(* A model of the GPR/GPS dashboard: the application object (GPRApp,       *)
(* main.js), the two slice viewers (SliceViewer), the track map            *)
(* (MapManager) and the controls (Controls).                               *)
(*                                                                         *)
(* The browser runs one handler at a time, so every action below is one    *)
(* whole handler (or one continuation of an async function after an        *)
(* await).  What the libraries and the backend decide (when a              *)
(* Plotly.relayout promise resolves, what a response holds, what the       *)
(* clock reads) is chosen nondeterministically.                            *)
(***************************************************************************)
EXTENDS Integers, Sequences, FiniteSets, TLC

VARIABLES
    syncViewers,     \* Controls.syncViewers
    poiMode,         \* 'active' class of the POI mode toggle
    loading,         \* the two loading overlays are visible
    status,          \* the status line: which message it shows (its arguments left out)
    mileMarkerEl,    \* the page has the #mile-marker element (Controls.elements.mileMarker)
    currentData,     \* GPRApp.currentData: a dataset id or "none"
    gpsTrack,        \* GPRApp.gpsTrack: a track id or "none"
    pois,            \* GPRApp.pois
    poiCounter,      \* GPRApp.poiCounter
    lastMapUpdate,   \* GPRApp._lastMapUpdate
    vMeta,           \* SliceViewer.metadata of each viewer: a dataset id or "none"
    vTrack,          \* SliceViewer.gpsTrack of each viewer: a track id or "none"
    vPois,           \* SliceViewer.pois of each viewer
    isSyncing,       \* SliceViewer._isSyncing of each viewer
    viewport,        \* the axis ranges each plot shows
    relayouts,       \* per viewer: Plotly.relayout calls of syncViewport not yet resolved
    mapTrack,        \* MapManager.gpsTrack: a track id or "none"
    positionMarker,  \* MapManager.positionMarker and whether it is on the map
    poiMarkers,      \* MapManager.poiMarkers
    poiList,         \* the sidebar's #poi-list entries
    queries,         \* loadData calls suspended at an await
    now,             \* Date.now()
    lastForward,     \* history: time and gap of the hover updates forwarded to the map
    lockstep,        \* history: sync has been enabled ever since the page was ready
    lastStep         \* history: the handler that ran last and what it did

vars == <<syncViewers, poiMode, loading, status, mileMarkerEl, currentData, gpsTrack,
          pois, poiCounter, lastMapUpdate, vMeta, vTrack, vPois, isSyncing, viewport,
          relayouts, mapTrack, positionMarker, poiMarkers, poiList, queries,
          now, lastForward, lockstep, lastStep>>

controlVars == <<syncViewers, poiMode, loading, status, mileMarkerEl>>
dataVars    == <<currentData, gpsTrack, vMeta, vTrack, mapTrack>>
poiVars     == <<pois, poiCounter, vPois, poiMarkers, poiList>>
syncVars    == <<isSyncing, viewport, relayouts>>
posVars     == <<lastMapUpdate, positionMarker, lastForward>>

(***************************************************************************)
(* Bounds of the model.                                                    *)
(***************************************************************************)
MaxPending == 2      \* unresolved syncViewport relayouts, both viewers together
MaxQueries == 2      \* loadData calls in flight at once
MaxAdds    == 2      \* POIs created by clicks in one run
MaxTicks   == 3      \* clock ticks in one run
StartTime  == 1000   \* Date.now() when the page is ready
RemoteTrackLen == 3  \* points in a track response of the backend

(***************************************************************************)
(* Program constants.                                                      *)
(***************************************************************************)
ThrottleMs     == 50    \* main.js:431
PoiCounterInit == 100   \* main.js:23
TickMs         == ThrottleMs \div 2

ViewerIds == {1, 2}
Other(v)  == IF v = 1 THEN 2 ELSE 1

\* JavaScript values that may be a number, null or undefined.
Num(n)  == [k |-> "num", v |-> n]
NullVal == [k |-> "null", v |-> 0]
Undef   == [k |-> "undef", v |-> 0]

Max(a, b) == IF a > b THEN a ELSE b
Min(a, b) == IF a < b THEN a ELSE b

\* lastStep: the handler that ran (kind, on which viewer), the number of calls
\* it made of the operation it may forward to (syncViewport for a viewport
\* handler, updatePositionIndicator for a hover), how it ended (note), for a
\* hover what the trackIndex it reported was (index: "num", "null" or
\* "undef") and what the handler started from or was given (before): the POI
\* list before an add, the dataset on show before a late response, the
\* fields of a submitted form, the arguments and result of a conversion.
StepFull(kind, view, calls, note, index, before) ==
    [kind |-> kind, view |-> view, calls |-> calls, note |-> note, index |-> index,
     before |-> before]
StepOn(kind, view, calls, note, before) == StepFull(kind, view, calls, note, "", before)
Step(kind, view, calls, note) == StepFull(kind, view, calls, note, "", <<>>)

(***************************************************************************)
(* Viewport synchronisation.                                               *)
(*                                                                         *)
(* An eventData of plotly_relayout is modelled by the keys the handler     *)
(* reads: x is 'xaxis.range[0..1]', y is 'yaxis.range[0..1]' ("undef" when *)
(* the key is absent), auto is 'xaxis.autorange'/'yaxis.autorange' (what a *)
(* double-click reset or the autoscale button sends).                      *)
(***************************************************************************)
EventData(x, y, auto) == [x |-> x, y |-> y, auto |-> auto]

UserEvents ==
    { EventData("a", "undef", FALSE),      \* horizontal zoom or pan
      EventData("b", "undef", FALSE),
      EventData("undef", "a", FALSE),      \* vertical zoom or pan
      EventData("undef", "undef", TRUE) }  \* reset / autorange gesture

\* What Plotly.relayout(plotDiv, eventData) makes the plot show.
ApplyRelayout(vp, ev) ==
    [x |-> IF ev.auto THEN "auto" ELSE IF ev.x # "undef" THEN ev.x ELSE vp.x,
     y |-> IF ev.auto THEN "auto" ELSE IF ev.y # "undef" THEN ev.y ELSE vp.y]

\* The plotly_relayout handler: does it call onViewportChange?
RelayoutHandled(syncing, ev) ==
    /\ ~syncing
    /\ (ev.x # "undef" \/ ev.y # "undef")

\* GPRApp's onViewportChange of either viewer: does it call syncViewport
\* on the other viewer?  (viewport.eventData is the event object: truthy.)
ShouldSyncUnguarded(sync, ev) == TRUE
ShouldSync(sync, ev) == sync

Propagates(v, ev) ==
    /\ RelayoutHandled(isSyncing[v], ev)
    /\ ShouldSync(syncViewers, ev)

PendingCount == Len(relayouts[1]) + Len(relayouts[2])

\* syncViewport(eventData) on viewer w: set the flag, start the relayout.
SyncViewportFlags(flags, w) == [flags EXCEPT ![w] = TRUE]
SyncViewportQueue(q, w, ev) == [q EXCEPT ![w] = Append(@, ev)]

\* The user zooms, pans or resets viewer v to a viewport other than the one
\* it shows: Plotly applies the change and emits plotly_relayout(ev) on v.
UserViewportChange(v, ev) ==
    /\ PendingCount < MaxPending
    /\ ApplyRelayout(viewport[v], ev) # viewport[v]
    /\ viewport' = [viewport EXCEPT ![v] = ApplyRelayout(@, ev)]
    /\ IF Propagates(v, ev)
         THEN /\ isSyncing' = SyncViewportFlags(isSyncing, Other(v))
              /\ relayouts' = SyncViewportQueue(relayouts, Other(v), ev)
         ELSE UNCHANGED <<isSyncing, relayouts>>
    /\ lastStep' = Step("user", v, IF Propagates(v, ev) THEN 1 ELSE 0, "")
    /\ UNCHANGED <<controlVars, dataVars, poiVars, posVars, queries, now, lockstep>>

\* The oldest relayout that syncViewport started on viewer v resolves: the
\* plot shows the new ranges, plotly_relayout is emitted on v (the handler
\* runs with the flag as it is now), then the .then callback clears the flag.
RelayoutDone(v) ==
    /\ relayouts[v] # <<>>
    /\ LET ev   == Head(relayouts[v])
           prop == Propagates(v, ev)
           rest == [relayouts EXCEPT ![v] = Tail(@)]
           off  == [isSyncing EXCEPT ![v] = FALSE]
       IN  /\ viewport' = [viewport EXCEPT ![v] = ApplyRelayout(@, ev)]
           /\ isSyncing' = IF prop THEN SyncViewportFlags(off, Other(v)) ELSE off
           /\ relayouts' = IF prop THEN SyncViewportQueue(rest, Other(v), ev) ELSE rest
           /\ lastStep' = Step("done", v, IF prop THEN 1 ELSE 0, "")
    /\ UNCHANGED <<controlVars, dataVars, poiVars, posVars, queries, now, lockstep>>

\* The oldest relayout that syncViewport started on viewer v fails: the
\* promise rejects, nothing is emitted and the .then callback does not run.
RelayoutFails(v) ==
    /\ relayouts[v] # <<>>
    /\ relayouts' = [relayouts EXCEPT ![v] = Tail(@)]
    /\ lastStep' = Step("failed", v, 0, "")
    /\ UNCHANGED <<controlVars, dataVars, poiVars, posVars, queries, now, lockstep,
                   viewport, isSyncing>>

\* A click on the sync button (or Ctrl+S).
ToggleSync ==
    /\ syncViewers' = ~syncViewers
    /\ lockstep' = FALSE
    /\ lastStep' = Step("toggle", 0, 0, "")
    /\ UNCHANGED <<poiMode, loading, status, mileMarkerEl, dataVars, poiVars, syncVars,
                   posVars, queries, now>>

(***************************************************************************)
(* Datasets and tracks.                                                    *)
(*                                                                         *)
(* A dataset or a track is named by an id; "none" is null.  "mock" is what *)
(* generateMockDataset returns, with its track "mockTrack" embedded as     *)
(* gps_track.  "remote" is a slice response of the backend, which carries  *)
(* bounds and a grid but no gps_track; "remoteTrack" is the points array   *)
(* of a track response.  Latitudes and longitudes are in 1e-5 degrees.     *)
(* "remoteB" is a slice response that runs north to south and embeds a     *)
(* gps_track, "sliceTrack"; "remoteE" embeds an empty gps_track.           *)
(* "remoteTrackB" and "longTrack" are further track responses, the latter  *)
(* one point longer than the sample track.                                 *)
(***************************************************************************)
\* gprResponse.metadata?.depth_range_m, <<>> when the response has none.
DepthRangeM(d) == IF d = "mock" THEN <<0, 6>> ELSE <<>>

\* SliceViewer.loadData: depthRange: metadata?.depth_range_m || [0, 5]
DepthRangeAlwaysDefault(d) == <<0, 5>>
DepthRange(d) == IF DepthRangeM(d) = <<>> THEN <<0, 5>> ELSE DepthRangeM(d)

Dataset(d) ==
    IF d = "mock"
      THEN [width |-> 1200, height |-> 200,
            startLat |-> 4296470, startLon |-> -8128970,
            endLat |-> 4305560, endLon |-> -8108230,
            depthRange |-> DepthRange(d), gps_track |-> "mockTrack"]
    ELSE IF d = "remoteB"
      THEN [width |-> 8, height |-> 10,
            startLat |-> 4200040, startLon |-> -8100000,
            endLat |-> 4200000, endLon |-> -8100080,
            depthRange |-> DepthRange(d), gps_track |-> "sliceTrack"]
      ELSE [width |-> 4, height |-> 2,
            startLat |-> 4200000, startLon |-> -8100000,
            endLat |-> 4200040, endLon |-> -8100080,
            depthRange |-> DepthRange(d),
            gps_track |-> IF d = "remoteE" THEN "emptyTrack" ELSE "none"]

TrackLen(t) ==
    IF t = "mockTrack" THEN 500
    ELSE IF t = "remoteTrack" THEN RemoteTrackLen
    ELSE IF t = "sliceTrack" THEN RemoteTrackLen
    ELSE IF t = "stopTrack" THEN RemoteTrackLen
    ELSE IF t = "remoteTrackB" THEN RemoteTrackLen + 1
    ELSE IF t = "longTrack" THEN 500 + 1
    ELSE 0

\* distance_miles of a track point, in units of the mean sample spacing.
DistanceMiles(t, i) == i

\* lat and lon of point i of a track, in 1e-5 degrees.  The sample track runs
\* from corner to corner of the sample bounds (generateMockGPSTrack; its
\* drift of about 1e-4 degrees is left out); the backend's tracks have a
\* sample every 20 units north and 40 units west, except "stopTrack", whose
\* samples from the second on were all taken at one place.
TrackLat(t, i) ==
    IF t \in {"mockTrack", "longTrack"}
      THEN 4296470 + (9090 * i) \div (TrackLen(t) - 1)
    ELSE IF t = "stopTrack" THEN 4200000 + 20 * Min(i, 1)
    ELSE IF t = "sliceTrack" THEN 4200040 - 20 * i
    ELSE 4200000 + 20 * i
TrackLon(t, i) ==
    IF t \in {"mockTrack", "longTrack"}
      THEN -8128970 + (20740 * i) \div (TrackLen(t) - 1)
    ELSE IF t = "stopTrack" THEN -8100000 - 40 * Min(i, 1)
    ELSE -8100000 - 40 * i

\* a + (b - a) * (num / den); exact for the inputs the model draws.
InterpolateFromEnd(a, b, num, den) == b + ((b - a) * num) \div den
Interpolate(a, b, num, den) == a + ((b - a) * num) \div den

\* Math.max(0, Math.min(trackIndex, this.gpsTrack.length - 1))
ClampIndexUpperOnly(ix, n) == Min(ix, n - 1)
ClampIndex(ix, n) == Max(0, Min(ix, n - 1))

\* SliceViewer.dataToGeoCoords of a viewer whose metadata is dataset d and
\* whose gpsTrack is t.
DataToGeoCoords(d, t, dataX, dataY) ==
    IF d = "none" THEN [k |-> "null"]
    ELSE LET m  == Dataset(d)
             n  == TrackLen(t)
             ix == ClampIndex((dataX * (n - 1)) \div m.width, n)
             hasTrack == t # "none" /\ n > 0
         IN  [k          |-> "geo",
              lat        |-> Interpolate(m.startLat, m.endLat, dataX, m.width),
              lon        |-> Interpolate(m.startLon, m.endLon, dataX, m.width),
              depth      |-> Interpolate(m.depthRange[1], m.depthRange[2], dataY, m.height),
              mile       |-> IF hasTrack THEN Num(DistanceMiles(t, ix)) ELSE NullVal,
              trackIndex |-> IF hasTrack THEN Num(ix) ELSE NullVal]

\* The arguments for which the results are whole numbers of the model's
\* units (1e-5 degrees, metres).
Representable(d, dataX, dataY) ==
    LET m == Dataset(d)
    IN  /\ ((m.endLat - m.startLat) * dataX) % m.width = 0
        /\ ((m.endLon - m.startLon) * dataX) % m.width = 0
        /\ ((m.depthRange[2] - m.depthRange[1]) * dataY) % m.height = 0

GeoXs == { -120, -1, 0, 3, 4, 7, 8, 9, 120, 600, 1080, 1200, 1320 }
GeoYs == { 0, 2, 4, 10, 100, 200 }

\* A call of dataToGeoCoords(dataX, dataY) on viewer v, as handleHover and
\* handleViewerClick make it; the arguments and the result are recorded.
ConvertCoords(v, dataX, dataY) ==
    /\ vMeta[v] = "none" \/ Representable(vMeta[v], dataX, dataY)
    /\ lastStep' = StepOn("convert", v, 0, "",
                          <<[x |-> dataX, y |-> dataY,
                             geo |-> DataToGeoCoords(vMeta[v], vTrack[v], dataX, dataY)]>>)
    /\ UNCHANGED <<controlVars, dataVars, poiVars, syncVars, posVars, queries, now,
                   lockstep>>

\* The position object handleHover hands to onPositionChange: geoCoords?.x
\* is undefined when geoCoords is null.
HoverPositionNulls(geo) ==
    IF geo.k = "null"
      THEN [mile |-> NullVal, trackIndex |-> NullVal]
      ELSE [mile |-> geo.mile, trackIndex |-> geo.trackIndex]
HoverPosition(geo) ==
    IF geo.k = "null"
      THEN [mile |-> Undef, trackIndex |-> Undef]
      ELSE [mile |-> geo.mile, trackIndex |-> geo.trackIndex]

\* Controls.updateCursorInfo throws a TypeError on position.mile.toFixed when
\* the element exists and mile is null (null !== undefined).
CursorInfoThrows(el, position) == el /\ position.mile.k = "null"

\* The test both position handlers make before forwarding the index.
ForwardsIndex(trackIndex) == trackIndex.k # "undef"

\* Which handler is installed as onPositionChange: Controls installs its own
\* on both viewers, GPRApp.setupCallbacks then replaces viewer 1's only.
PositionHandler(v) == IF v = 1 THEN "app" ELSE "controls"

\* throttledMapUpdate's test.
ThrottleOpenAlways(t, last) == TRUE
ThrottleOpen(t, last) == t - last > ThrottleMs

(***************************************************************************)
(* MapManager.updatePositionIndicator(trackIndex) on a map whose gpsTrack  *)
(* is t.  In the comparisons null counts as 0 and undefined as NaN.        *)
(***************************************************************************)
IndicatorReturnsEarly(t, trackIndex) ==
    \/ t = "none"
    \/ trackIndex.k = "num" /\ (trackIndex.v < 0 \/ trackIndex.v >= TrackLen(t))
    \/ trackIndex.k = "null" /\ 0 >= TrackLen(t)

\* gpsTrack[trackIndex] is undefined for null and undefined: the old marker
\* is removed from the map, then reading point.lat throws.
IndicatorThrows(t, trackIndex) ==
    ~IndicatorReturnsEarly(t, trackIndex) /\ trackIndex.k # "num"

NoMarker == [set |-> FALSE, track |-> "none", index |-> 0, onMap |-> FALSE]

UpdatePositionIndicator(pm, t, trackIndex) ==
    IF IndicatorReturnsEarly(t, trackIndex) THEN pm
    ELSE IF IndicatorThrows(t, trackIndex) THEN [pm EXCEPT !.onMap = FALSE]
    ELSE [set |-> TRUE, track |-> t, index |-> trackIndex.v, onMap |-> TRUE]

Forwarded(fw, t) ==
    [n |-> Min(fw.n + 1, 2), time |-> t, gap |-> IF fw.n >= 1 THEN t - fw.time ELSE 0]

HoverPoints == { <<0, 0>>, <<3, 1>>, <<600, 100>> }

\* plotly_hover on viewer v at data point pt: handleHover, then the
\* onPositionChange handler installed on v.
Hover(v, pt) ==
    LET geo      == DataToGeoCoords(vMeta[v], vTrack[v], pt[1], pt[2])
        position == HoverPosition(geo)
        ti       == position.trackIndex
        threw    == CursorInfoThrows(mileMarkerEl, position)
        forwards == ~threw /\ ForwardsIndex(ti)
        open     == PositionHandler(v) = "controls" \/ ThrottleOpen(now, lastMapUpdate)
        calls    == forwards /\ open
    IN  /\ vMeta[v] = "none" \/ pt[1] < Dataset(vMeta[v]).width
        /\ lastMapUpdate' = IF calls /\ PositionHandler(v) = "app" THEN now ELSE lastMapUpdate
        /\ positionMarker' = IF calls THEN UpdatePositionIndicator(positionMarker, mapTrack, ti)
                             ELSE positionMarker
        /\ lastForward' = IF calls THEN Forwarded(lastForward, now) ELSE lastForward
        /\ lastStep' = StepFull("hover", v, IF calls THEN 1 ELSE 0,
                                IF threw THEN "cursor-threw"
                                ELSE IF ~forwards THEN "skipped"
                                ELSE IF ~open THEN "dropped"
                                ELSE IF IndicatorThrows(mapTrack, ti) THEN "map-threw"
                                ELSE IF IndicatorReturnsEarly(mapTrack, ti) THEN "returned"
                                ELSE "applied",
                                ti.k, <<>>)
        /\ UNCHANGED <<controlVars, dataVars, poiVars, syncVars, queries, now, lockstep>>

\* Time passes.
Tick ==
    /\ now < StartTime + MaxTicks * TickMs
    /\ now' = now + TickMs
    /\ lastStep' = Step("tick", 0, 0, "")
    /\ UNCHANGED <<controlVars, dataVars, poiVars, syncVars, posVars, queries, lockstep>>

(***************************************************************************)
(* The POI store and the surfaces that show it.                            *)
(***************************************************************************)
POI(id, type, label, x, y, lat, lon, mile, notes) ==
    [id |-> id, type |-> type, label |-> label, slice_x |-> x, slice_y |-> y,
     lat |-> lat, lon |-> lon, mile_marker |-> mile, notes |-> notes]

\* getMockPOIs (mile_marker in hundredths of a mile).
MockPOIs ==
    << POI("poi-1", "culvert", "Culvert #1", 80, 38, 4297120, -8127650, 42,
           "Metal culvert"),
       POI("poi-2", "pipe", "Utility Pipe #1", 180, 55, 4298230, -8125560, 114,
           "Possible water main"),
       POI("poi-3", "void", "Void Area", 260, 90, 4299120, -8123780, 172,
           "Subsurface void - investigate"),
       POI("poi-4", "anomaly", "Unknown Feature", 420, 70, 4300890, -8119780, 289,
           "Deep anomaly - needs investigation"),
       POI("poi-5", "culvert", "Culvert #2", 520, 35, 4301780, -8117560, 356,
           "Concrete culvert") >>

\* this.poiCounter++
NextCounterStuck(c) == c
NextCounter(c) == c + 1

UserPoiId(c) == "poi-user-" \o ToString(c)

\* poiType.charAt(0).toUpperCase() + poiType.slice(1)
Capitalize(type) ==
    CASE type = "culvert" -> "Culvert"
      [] type = "pipe"    -> "Pipe"
      [] type = "void"    -> "Void"
      [] type = "anomaly" -> "Anomaly"
      [] OTHER            -> "Other"

\* value || 0 of a number, null or undefined
OrZero(val) == IF val.k = "num" THEN val.v ELSE 0

\* The POI handleViewerClick builds; geo is viewer 1's dataToGeoCoords.
\* (The time of day in notes is left out.)
NewPOIAtOrigin(c, type, pt, viewerNum, geo) ==
    POI(UserPoiId(c), type, Capitalize(type) \o " #" \o ToString(c), pt[1], pt[2],
        0, 0, 0, "Added from viewer " \o ToString(viewerNum))
NewPOI(c, type, pt, viewerNum, geo) ==
    POI(UserPoiId(c), type, Capitalize(type) \o " #" \o ToString(c), pt[1], pt[2],
        IF geo.k = "null" THEN 0 ELSE geo.lat,
        IF geo.k = "null" THEN 0 ELSE geo.lon,
        IF geo.k = "null" THEN 0 ELSE OrZero(geo.mile),
        "Added from viewer " \o ToString(viewerNum))

\* SliceViewer.setPOIs: this.pois = pois || []
SetPOIsEmpty(list) == <<>>
SetPOIs(list) == list

\* MapManager.addPOIMarkers: the old markers go, one marker per POI is added.
AddPOIMarkers(list) ==
    [i \in 1..Len(list) |->
        [lat |-> list[i].lat, lon |-> list[i].lon, type |-> list[i].type,
         label |-> list[i].label]]

\* GPRApp.updatePOIList: the list is emptied, one entry per POI is added.
UpdatePOIList(list) ==
    [i \in 1..Len(list) |->
        [label |-> list[i].label, x |-> list[i].slice_x, y |-> list[i].slice_y,
         index |-> i - 1]]

\* deletePOI's guard
DeleteInRangeNoLower(index, len) == ~(index >= len)
DeleteInRange(index, len) == ~(index < 0 \/ index >= len)

\* list.splice(index, 1): a negative index counts from the end.
SpliceStart(list, index) ==
    IF index < 0 THEN Max(Len(list) + index, 0) ELSE Min(index, Len(list))
SpliceFirst(list, index) == SubSeq(list, 2, Len(list))
Splice(list, index) ==
    LET start == SpliceStart(list, index)
    IN  SubSeq(list, 1, start) \o SubSeq(list, start + 2, Len(list))

PoiTypes    == { "pipe" }
ClickPoints == { <<600, 50>> }

\* plotly_click on viewer v at pt: onClick, that is handleViewerClick(pt, v).
ViewerClick(v, type, pt) ==
    /\ poiCounter < PoiCounterInit + MaxAdds
    /\ IF poiMode /\ currentData # "none"
         THEN LET c      == NextCounter(poiCounter)
                  geo    == DataToGeoCoords(vMeta[1], vTrack[1], pt[1], pt[2])
                  newPOI == NewPOI(c, type, pt, v, geo)
                  list   == Append(pois, newPOI)
              IN  /\ poiCounter' = c
                  /\ pois' = list
                  /\ vPois' = [w \in ViewerIds |-> SetPOIs(list)]
                  /\ poiMarkers' = AddPOIMarkers(list)
                  /\ poiList' = UpdatePOIList(list)
                  /\ status' = "Added"
                  /\ lastStep' = StepOn("click", v, 0, "added", pois)
         ELSE /\ UNCHANGED <<poiVars, status>>
              /\ lastStep' = Step("click", 0, 0, "ignored")
    /\ UNCHANGED <<syncViewers, poiMode, loading, mileMarkerEl, dataVars, syncVars,
                   posVars, queries, now, lockstep>>

\* A click on an entry's delete button, or any other call of deletePOI.
DeletePOI(index) ==
    /\ IF DeleteInRange(index, Len(pois))
         THEN LET start == SpliceStart(pois, index)
                  list  == Splice(pois, index)
                  undo  == /\ lastStep.note = "added"
                           /\ index = Len(pois) - 1
              IN  /\ pois' = list
                  /\ vPois' = [w \in ViewerIds |-> SetPOIs(list)]
                  /\ poiMarkers' = AddPOIMarkers(list)
                  /\ poiList' = UpdatePOIList(list)
                  \* deleted.label of an undefined element throws
                  /\ status' = IF start < Len(pois) THEN "Deleted" ELSE status
                  /\ lastStep' = StepOn("delete", 0, 0,
                                        IF start >= Len(pois) THEN "threw"
                                        ELSE IF undo THEN "undone" ELSE "deleted",
                                        IF undo THEN lastStep.before ELSE <<>>)
         ELSE /\ UNCHANGED <<pois, vPois, poiMarkers, poiList, status>>
              /\ lastStep' = Step("delete", 0, 0, "ignored")
    /\ UNCHANGED <<syncViewers, poiMode, loading, mileMarkerEl, dataVars, poiCounter,
                   syncVars, posVars, queries, now, lockstep>>

\* A click on the POI mode toggle.
TogglePOIMode ==
    /\ poiMode' = ~poiMode
    /\ lastStep' = Step("poimode", 0, 0, "")
    /\ UNCHANGED <<syncViewers, loading, status, mileMarkerEl, dataVars, poiVars,
                   syncVars, posVars, queries, now, lockstep>>

(***************************************************************************)
(* Navigation: a click on the map's track, a click on a sidebar entry.     *)
(***************************************************************************)
\* SliceViewer.centerOnDataX(dataX) on viewer v showing vp: a relayout with
\* 'xaxis.range' around dataX (no 'xaxis.range[0]' key, so the relayout
\* handler does not forward it), nothing without data.
CenterOnDataX(v, vp, dataX) ==
    IF vMeta[v] = "none" THEN vp ELSE [vp EXCEPT !.x = "c" \o ToString(dataX)]

\* The points of the map's track a click is modelled near: first and last.
ClickIndexes(t) == IF TrackLen(t) = 0 THEN {} ELSE { 0, TrackLen(t) - 1 }

\* A click on the map within reach of point idx of the map's track:
\* findNearestTrackPoint returns it, onPositionClick calls
\* syncToTrackPosition(idx), which reads the application's gpsTrack.
MapClick(idx) ==
    LET len     == TrackLen(gpsTrack)
        returns == gpsTrack = "none" \/ idx < 0
        throws  == ~returns /\ idx >= len     \* point is undefined: point.distance_miles
        dataX   == (idx * Dataset(currentData).width) \div len
        done    == ~returns /\ ~throws
    IN  /\ idx \in ClickIndexes(mapTrack)
        /\ viewport' = IF done THEN [v \in ViewerIds |-> CenterOnDataX(v, viewport[v], dataX)]
                       ELSE viewport
        /\ positionMarker' = IF done
                               THEN UpdatePositionIndicator(positionMarker, mapTrack, Num(idx))
                               ELSE positionMarker
        /\ status' = IF done THEN "Position" ELSE status
        /\ lastStep' = StepOn("mapclick", 0, IF done THEN 1 ELSE 0,
                              IF returns THEN "ignored" ELSE IF throws THEN "threw" ELSE "done",
                              <<idx, len>>)
        /\ UNCHANGED <<syncViewers, poiMode, loading, mileMarkerEl, dataVars, poiVars,
                       isSyncing, relayouts, lastMapUpdate, lastForward, queries, now,
                       lockstep>>

\* The threshold of findNearestTrackPoint, 0.001 degrees.
NearThreshold == 100

\* The square of Math.sqrt(Math.pow(point.lat - lat, 2) + Math.pow(point.lon - lon, 2))
Pow2(a) == a * a
Dist2(t, i, lat, lon) == Pow2(TrackLat(t, i) - lat) + Pow2(TrackLon(t, i) - lon)

\* What the forEach of findNearestTrackPoint leaves after the points lo to
\* hi: <<minDistance squared, index>>, <<>> while minDistance is Infinity.
\* A later point replaces an earlier one only if it is strictly nearer
\* (dist < minDistance), so the halves of the range can be folded apart.
Nearer(first, second) == IF second[1] < first[1] THEN second ELSE first

RECURSIVE NearestIn(_, _, _, _, _)
NearestIn(t, lat, lon, lo, hi) ==
    IF lo > hi THEN <<>>
    ELSE IF lo = hi THEN <<Dist2(t, lo, lat, lon), lo>>
    ELSE Nearer(NearestIn(t, lat, lon, lo, (lo + hi) \div 2),
                NearestIn(t, lat, lon, (lo + hi) \div 2 + 1, hi))

\* MapManager.findNearestTrackPoint(lat, lon) on the track t the map holds:
\* the index of the point returned, or null.
FindNearestTrackPoint(t, lat, lon) ==
    IF t = "none" THEN NullVal
    ELSE LET near == NearestIn(t, lat, lon, 0, TrackLen(t) - 1)
         IN  IF near # <<>> /\ near[1] < NearThreshold * NearThreshold
               THEN Num(near[2]) ELSE NullVal

\* Where a click lies relative to a track point, in 1e-5 degrees of
\* latitude and longitude: on it, 0.00099, 0.001 and 0.00101 degrees away
\* along a meridian, and 0.001 degrees away obliquely.
ClickOffsets == { <<0, 0>>, <<-99, 0>>, <<-100, 0>>, <<-101, 0>>, <<-60, 80>> }

\* The points of the map's track the clicks are drawn around.
ClickedPoints(t) == { k \in {0, 1, TrackLen(t) - 1} : 0 <= k /\ k < TrackLen(t) }

\* The positions on the map the model clicks at.
ClickPositions(t) ==
    IF TrackLen(t) = 0 THEN { <<4200000, -8100000>> }
    ELSE { <<TrackLat(t, k) + o[1], TrackLon(t, k) + o[2]>> :
             k \in ClickedPoints(t), o \in ClickOffsets }

\* A click on the map at (lat, lon): the click handler looks up the nearest
\* point of the map's track and, if there is one, onPositionClick calls
\* syncToTrackPosition(nearest.index), which reads the application's
\* gpsTrack.
MapClickAt(lat, lon) ==
    \E nearest \in { IF mapTrack = "none" THEN NullVal
                      ELSE FindNearestTrackPoint(mapTrack, lat, lon) } :
    LET idx     == nearest.v
        len     == TrackLen(gpsTrack)
        called  == nearest.k = "num"
        returns == gpsTrack = "none" \/ idx < 0
        throws  == ~returns /\ idx >= len
        dataX   == (idx * Dataset(currentData).width) \div len
        done    == called /\ ~returns /\ ~throws
    IN  /\ <<lat, lon>> \in ClickPositions(mapTrack)
        /\ viewport' = IF done THEN [v \in ViewerIds |-> CenterOnDataX(v, viewport[v], dataX)]
                       ELSE viewport
        /\ positionMarker' = IF done
                               THEN UpdatePositionIndicator(positionMarker, mapTrack, Num(idx))
                               ELSE positionMarker
        /\ status' = IF done THEN "Position" ELSE status
        /\ lastStep' = StepOn("mapclickat", 0, IF called THEN 1 ELSE 0,
                              IF ~called THEN "nolookup"
                              ELSE IF returns THEN "ignored"
                              ELSE IF throws THEN "threw" ELSE "done",
                              <<[lat |-> lat, lon |-> lon, nearest |-> nearest]>>)
        /\ UNCHANGED <<syncViewers, poiMode, loading, mileMarkerEl, dataVars, poiVars,
                       isSyncing, relayouts, lastMapUpdate, lastForward, queries, now,
                       lockstep>>

\* A click on entry k of the sidebar list: navigateToPOI(pois[k - 1]).
NavigateToPOI(k) ==
    LET poi     == pois[k]
        lookup  == gpsTrack # "none" /\ currentData # "none"
        idx     == (poi.slice_x * (TrackLen(gpsTrack) - 1)) \div Dataset(currentData).width
    IN  /\ k \in 1..Len(pois)
        /\ viewport' = [v \in ViewerIds |-> CenterOnDataX(v, viewport[v], poi.slice_x)]
        /\ positionMarker' = IF lookup
                               THEN UpdatePositionIndicator(positionMarker, mapTrack, Num(idx))
                               ELSE positionMarker
        /\ status' = "Navigated"
        /\ lastStep' = StepOn("navigate", 0, IF lookup THEN 1 ELSE 0, "done",
                              IF lookup THEN <<idx, TrackLen(mapTrack)>> ELSE <<0, 0>>)
        /\ UNCHANGED <<syncViewers, poiMode, loading, mileMarkerEl, dataVars, poiVars,
                       isSyncing, relayouts, lastMapUpdate, lastForward, queries, now,
                       lockstep>>

(***************************************************************************)
(* Loading data.                                                           *)
(***************************************************************************)
\* SliceViewer.loadData(gprResponse): this.gpsTrack = gprResponse.gps_track || null
ViewerTrack(d) == Dataset(d).gps_track

\* The body of GPRApp.loadSampleData.
LoadSampleData ==
    /\ currentData' = "mock"
    /\ gpsTrack' = Dataset("mock").gps_track
    /\ pois' = MockPOIs
    /\ vMeta' = [v \in ViewerIds |-> "mock"]
    /\ vTrack' = [v \in ViewerIds |-> ViewerTrack("mock")]
    /\ vPois' = [v \in ViewerIds |-> SetPOIs(MockPOIs)]
    /\ mapTrack' = Dataset("mock").gps_track
    /\ poiMarkers' = AddPOIMarkers(MockPOIs)
    /\ poiList' = UpdatePOIList(MockPOIs)
    /\ loading' = FALSE
    /\ status' = "Loaded"

\* A click on "Load Sample Data".
LoadSample ==
    /\ LoadSampleData
    /\ lastStep' = Step("load", 0, 0, "sample")
    /\ UNCHANGED <<syncViewers, poiMode, mileMarkerEl, poiCounter, syncVars, posVars,
                   queries, now, lockstep>>

\* A suspended loadData(params): where it waits and the slice it has got.
Query(params, pc, gpr) == [params |-> params, pc |-> pc, gpr |-> gpr]

QueryParams == { "2025-06-15" }

RemoveAt(list, i) == SubSeq(list, 1, i - 1) \o SubSeq(list, i + 1, Len(list))

SliceResponses == { "remote" }
TrackResponses == { "remoteTrack", "none" }   \* gpsData.points, "none" when absent

\* The dates of the date selector, and what the backend holds for each.
Dates == { "2025-06-15", "2025-06-16" }
SliceResponseOf(params) == IF params = "2025-06-15" THEN "remote" ELSE "remoteB"
TrackResponseOf(params) == IF params = "2025-06-15" THEN "remoteTrack" ELSE "remoteTrackB"

\* What the catch block of loadData passes to setStatus.
FallbackStatus == "Backend unavailable - loading sample data"

\* A valid query is submitted: loadData runs up to its first await.
SubmitQuery(params) ==
    /\ Len(queries) < MaxQueries
    /\ queries' = Append(queries, Query(params, "slice", "none"))
    /\ status' = "Loading GPR data..."
    /\ loading' = TRUE
    /\ lastStep' = Step("query", 0, 0, "")
    /\ UNCHANGED <<syncViewers, poiMode, mileMarkerEl, dataVars, poiVars, syncVars,
                   posVars, now, lockstep>>

\* What the user may have typed into a coordinate field, and the dates the
\* selector offers ("" when nothing is selected).
FieldValues == { "", "abc", "42.9647", "Infinity" }
DateValues  == { "" } \cup Dates

\* parseFloat(text): a finite number, NaN, or an infinity.
ParseFloat(text) ==
    IF text = "42.9647" THEN "num"
    ELSE IF text = "Infinity" THEN "inf"
    ELSE "nan"

IsNaN(val) == val = "nan"

\* Controls.handleQuerySubmit with the form holding date and the four
\* coordinate fields: showError and return, or onQuerySubmit(params), which
\* runs loadData up to its first await.
HandleQuerySubmit(date, fields) ==
    LET parsed == [k \in 1..4 |-> ParseFloat(fields[k])]
        valid  == /\ date # ""
                  /\ ~(\E k \in 1..4 : IsNaN(parsed[k]))
    IN  /\ IF valid
             THEN /\ Len(queries) < MaxQueries
                  /\ queries' = Append(queries, Query(date, "slice", "none"))
                  /\ status' = "Loading GPR data..."
                  /\ loading' = TRUE
             ELSE UNCHANGED <<queries, status, loading>>
        /\ lastStep' = StepOn("submit", 0, IF valid THEN 1 ELSE 0,
                              IF valid THEN "dispatched" ELSE "error-shown",
                              <<date>> \o parsed)
        /\ UNCHANGED <<syncViewers, poiMode, mileMarkerEl, dataVars, poiVars, syncVars,
                       posVars, now, lockstep>>

\* api.getGPRSlice resolves: loadData goes on to await api.getGPSTrack.
SliceResolveRenders(i, gpr) ==
    /\ queries[i].pc = "slice"
    /\ queries' = [queries EXCEPT ![i] = Query(@.params, "track", gpr)]
    /\ vMeta' = [v \in ViewerIds |-> gpr]
    /\ vTrack' = [v \in ViewerIds |-> ViewerTrack(gpr)]
    /\ lastStep' = Step("query", 0, 0, "")
    /\ UNCHANGED <<controlVars, currentData, gpsTrack, mapTrack, poiVars, syncVars,
                   posVars, now, lockstep>>
SliceResolve(i, gpr) ==
    /\ queries[i].pc = "slice"
    /\ queries' = [queries EXCEPT ![i] = Query(@.params, "track", gpr)]
    /\ lastStep' = Step("query", 0, 0, "")
    /\ UNCHANGED <<controlVars, dataVars, poiVars, syncVars, posVars, now, lockstep>>

\* The response viewer1.loadData and viewer2.loadData are given: the one
\* this call of loadData awaited, whatever has been loaded in between.
LoadedDatasetUnlessStale(gpr) ==
    IF lastStep.kind = "load" /\ lastStep.note \in {"overtook", "stale"}
      THEN vMeta[1] ELSE gpr
LoadedDataset(gpr) == gpr

\* api.getGPSTrack resolves: the rest of the try block runs.  The note tells
\* whether the query was the newest in flight with older ones still waiting
\* ("overtook"), or completes right after such a one ("stale": before is
\* then the dataset the viewers showed).
TrackResolve(i, points) ==
    /\ queries[i].pc = "track"
    /\ queries' = RemoveAt(queries, i)
    /\ vMeta' = [v \in ViewerIds |-> LoadedDataset(queries[i].gpr)]
    /\ vTrack' = [v \in ViewerIds |-> ViewerTrack(LoadedDataset(queries[i].gpr))]
    /\ mapTrack' = IF points # "none" THEN points ELSE mapTrack
    /\ loading' = FALSE
    /\ status' = "Loaded data for"
    /\ lastStep' = StepOn("load", 0, 0,
                          IF lastStep.kind = "load" /\ lastStep.note \in {"overtook", "stale"}
                            THEN "stale"
                          ELSE IF i > 1 /\ i = Len(queries) THEN "overtook"
                          ELSE "fresh",
                          IF lastStep.kind = "load" /\ lastStep.note \in {"overtook", "stale"}
                            THEN <<vMeta[1]>> ELSE <<>>)
    /\ UNCHANGED <<syncViewers, poiMode, mileMarkerEl, currentData, gpsTrack, poiVars,
                   syncVars, posVars, now, lockstep>>

\* Either fetch rejects: the catch block sets the status and calls
\* loadSampleData, which sets it again.
FetchRejectGivesUp(i) ==
    /\ queries[i].pc \in {"slice", "track"}
    /\ queries' = RemoveAt(queries, i)
    /\ status' = FallbackStatus
    /\ lastStep' = Step("load", 0, 0, "fallback")
    /\ UNCHANGED <<syncViewers, poiMode, loading, mileMarkerEl, dataVars, poiVars,
                   syncVars, posVars, now, lockstep>>
FetchReject(i) ==
    /\ queries[i].pc \in {"slice", "track"}
    /\ queries' = RemoveAt(queries, i)
    /\ LoadSampleData
    /\ lastStep' = Step("load", 0, 0, "fallback")
    /\ UNCHANGED <<syncViewers, poiMode, mileMarkerEl, poiCounter, syncVars, posVars,
                   now, lockstep>>

(***************************************************************************)
(* The state once init() has run, and the specifications.                  *)
(***************************************************************************)
Init ==
    /\ syncViewers = TRUE
    /\ poiMode = FALSE
    /\ loading = FALSE
    /\ status = "Ready"
    /\ mileMarkerEl \in BOOLEAN
    /\ currentData = "none"
    /\ gpsTrack = "none"
    /\ pois = <<>>
    /\ poiCounter = PoiCounterInit
    /\ lastMapUpdate = 0
    /\ vMeta = [v \in ViewerIds |-> "none"]
    /\ vTrack = [v \in ViewerIds |-> "none"]
    /\ vPois = [v \in ViewerIds |-> <<>>]
    /\ isSyncing = [v \in ViewerIds |-> FALSE]
    /\ viewport = [v \in ViewerIds |-> [x |-> "auto", y |-> "auto"]]
    /\ relayouts = [v \in ViewerIds |-> <<>>]
    /\ mapTrack = "none"
    /\ positionMarker = NoMarker
    /\ poiMarkers = <<>>
    /\ poiList = <<>>
    /\ queries = <<>>
    /\ now = StartTime
    /\ lastForward = [n |-> 0, time |-> 0, gap |-> 0]
    /\ lockstep = TRUE
    /\ lastStep = Step("init", 0, 0, "")

LoadActions ==
    \/ LoadSample
    \/ \E params \in Dates : SubmitQuery(params)
    \/ \E i \in 1..Len(queries) : SliceResolve(i, SliceResponseOf(queries[i].params))
    \/ \E i \in 1..Len(queries) : TrackResolve(i, TrackResponseOf(queries[i].params))
    \/ \E i \in 1..Len(queries) : FetchReject(i)

SyncActions ==
    \/ \E v \in ViewerIds : \E ev \in UserEvents : UserViewportChange(v, ev)
    \/ \E v \in ViewerIds : RelayoutDone(v)
    \/ ToggleSync

PosActions ==
    \/ \E v \in ViewerIds : \E pt \in HoverPoints : Hover(v, pt)
    \/ Tick

PoiActions ==
    \/ \E v \in ViewerIds : \E type \in PoiTypes : \E pt \in ClickPoints :
           ViewerClick(v, type, pt)
    \/ \E index \in -1..Len(pois) : DeletePOI(index)
    \/ TogglePOIMode

NavActions ==
    \/ \E idx \in ClickIndexes(mapTrack) : MapClick(idx)
    \/ \E k \in 1..Len(pois) : NavigateToPOI(k)

ClickAtActions ==
    \E pos \in ClickPositions(mapTrack) : MapClickAt(pos[1], pos[2])

GeoActions ==
    \E v \in ViewerIds : \E dataX \in GeoXs : \E dataY \in GeoYs :
        ConvertCoords(v, dataX, dataY)

FormActions ==
    \E date \in DateValues : \E fields \in [1..4 -> FieldValues] :
        HandleQuerySubmit(date, fields)

Next == SyncActions \/ PosActions \/ PoiActions \/ LoadActions \/ FormActions \/ NavActions
        \/ GeoActions \/ ClickAtActions
        \/ \E v \in ViewerIds : RelayoutFails(v)

Spec == Init /\ [][Next]_vars

\* The viewport handlers alone: they read and write nothing the others touch.
NextSync == SyncActions
SpecSync == Init /\ [][NextSync]_vars

\* The loads, one query at a time.
SerialLoadActions ==
    \/ LoadSample
    \/ queries = <<>> /\ \E params \in QueryParams : SubmitQuery(params)
    \/ \E i \in 1..Len(queries) : \E gpr \in SliceResponses : SliceResolve(i, gpr)
    \/ \E i \in 1..Len(queries) : \E points \in TrackResponses : TrackResolve(i, points)
    \/ \E i \in 1..Len(queries) : FetchReject(i)

\* Hovering and the clock, with the loads.
NextPos == PosActions \/ SerialLoadActions
SpecPos == Init /\ [][NextPos]_vars

\* The POI handlers, with the loads, on a page that has the #mile-marker
\* element (only updateCursorInfo, which hovering runs, looks for it).
InitPoi == Init /\ mileMarkerEl = TRUE
NextPoi == PoiActions \/ SerialLoadActions
SpecPoi == InitPoi /\ [][NextPoi]_vars

\* The POI handlers on the sample data.
NextStore == PoiActions \/ LoadSample
SpecStore == Init /\ [][NextStore]_vars

\* Navigation, with the loads one query at a time; the backend's track may
\* be longer than the sample's.
NextNav ==
    \/ NavActions
    \/ LoadSample
    \/ queries = <<>> /\ \E params \in QueryParams : SubmitQuery(params)
    \/ \E i \in 1..Len(queries) : \E gpr \in SliceResponses : SliceResolve(i, gpr)
    \/ \E i \in 1..Len(queries) : \E points \in TrackResponses \cup {"longTrack"} :
           TrackResolve(i, points)
    \/ \E i \in 1..Len(queries) : FetchReject(i)
SpecNav == InitPoi /\ [][NextNav]_vars

\* Clicks on the map around the points of the tracks it can hold: the
\* sample's, a backend track, one with repeated positions, an empty one.
\* The sample is loaded once, before or after the backend has been queried.
NearTrackResponses == { "remoteTrack", "stopTrack", "emptyTrack", "none" }
NextNear ==
    \/ ClickAtActions
    \/ gpsTrack = "none" /\ LoadSample
    \/ queries = <<>> /\ \E params \in QueryParams : SubmitQuery(params)
    \/ \E i \in 1..Len(queries) : \E gpr \in SliceResponses : SliceResolve(i, gpr)
    \/ \E i \in 1..Len(queries) : \E points \in NearTrackResponses :
           TrackResolve(i, points)
SpecNear == InitPoi /\ [][NextNear]_vars

\* The coordinate conversion on every kind of slice the viewers can hold.
GeoSliceResponses == { "remote", "remoteB", "remoteE" }
NextGeo ==
    \/ GeoActions
    \/ LoadSample
    \/ queries = <<>> /\ \E params \in QueryParams : SubmitQuery(params)
    \/ \E i \in 1..Len(queries) : \E gpr \in GeoSliceResponses : SliceResolve(i, gpr)
    \/ \E i \in 1..Len(queries) : TrackResolve(i, "none")
SpecGeo == InitPoi /\ [][NextGeo]_vars

\* The query form, with the fetches of one query at a time.
NextQuery ==
    \/ \E date \in DateValues : \E fields \in [1..4 -> FieldValues] :
           queries = <<>> /\ HandleQuerySubmit(date, fields)
    \/ \E i \in 1..Len(queries) : SliceResolve(i, SliceResponseOf(queries[i].params))
    \/ \E i \in 1..Len(queries) : TrackResolve(i, TrackResponseOf(queries[i].params))
    \/ \E i \in 1..Len(queries) : FetchReject(i)
SpecQuery == Init /\ [][NextQuery]_vars

\* The loads alone, with queries in flight at the same time.
NextLoad == LoadActions
SpecLoad == Init /\ [][NextLoad]_vars

\* Viewport synchronisation in which a relayout may fail and every relayout
\* that was started settles in the end.
RelayoutSettles(v) == RelayoutDone(v) \/ RelayoutFails(v)
NextSyncLive ==
    \/ SyncActions
    \/ \E v \in ViewerIds : RelayoutFails(v)
SpecSyncLive ==
    Init /\ [][NextSyncLive]_vars /\ \A v \in ViewerIds : WF_vars(RelayoutSettles(v))

\* The loads with every fetch settling in the end.  A date is not queried
\* again while its query is outstanding, so that a query is known by its
\* date.
InFlight(date) == \E i \in 1..Len(queries) : queries[i].params = date

\* A fetch of the query for date resolves or rejects.
FetchSettles(date) ==
    \E i \in 1..Len(queries) :
        /\ queries[i].params = date
        /\ \/ SliceResolve(i, SliceResponseOf(date))
           \/ TrackResolve(i, TrackResponseOf(date))
           \/ FetchReject(i)

NextLive ==
    \/ LoadSample
    \/ \E date \in Dates : ~InFlight(date) /\ SubmitQuery(date)
    \/ \E date \in Dates : FetchSettles(date)
SpecLive ==
    Init /\ [][NextLive]_vars /\ \A date \in Dates : WF_vars(FetchSettles(date))

(***************************************************************************)
(* The claims.                                                             *)
(***************************************************************************)
Settled == relayouts[1] = <<>> /\ relayouts[2] = <<>>

\* C1: every viewport change the user makes on one viewer while sync is
\* enabled makes exactly one syncViewport call on the other viewer, and a
\* relayout that syncViewport started never propagates back (no ping-pong).
C1_OneUpdateNoPingPong ==
    /\ (lastStep.kind = "user" /\ syncViewers) => lastStep.calls = 1
    /\ lastStep.kind = "done" => lastStep.calls = 0

\* C2: while sync is enabled every user-driven viewport change reaches the
\* other viewer: with sync on since the start and no relayout pending, both
\* viewers show the same viewport.
C2_LockStepWhenSettled ==
    (lockstep /\ Settled) => viewport[1] = viewport[2]

\* C3: sync is enabled initially, each toggle flips it, and while it is
\* disabled a viewport change on one viewer makes no syncViewport call and
\* leaves the other viewer's viewport, flag and pending relayouts unchanged.
C3_NoSyncWhenDisabled ==
    /\ syncViewers = TRUE
    /\ [][ /\ lastStep'.kind = "toggle" => syncViewers' = ~syncViewers
           /\ (lastStep'.kind \in {"user", "done"} /\ ~syncViewers) =>
                 LET w == Other(lastStep'.view)
                 IN  /\ lastStep'.calls = 0
                     /\ viewport'[w] = viewport[w]
                     /\ isSyncing'[w] = isSyncing[w]
                     /\ relayouts'[w] = relayouts[w] ]_vars

C3_Witness ==
    /\ lastStep.kind = "user"
    /\ ~syncViewers
    /\ lastStep.calls = 0
    /\ viewport[lastStep.view] # viewport[Other(lastStep.view)]

\* C4: two consecutive position updates that hovering forwards to the map
\* are at least the throttle window apart.
C4_ForwardsThrottled ==
    lastForward.n >= 2 => lastForward.gap >= ThrottleMs

\* C5: a throttled update is dropped, not queued: a hover that reaches
\* throttledMapUpdate within the window changes neither the indicator nor
\* _lastMapUpdate, and time passing alone never changes them (no timer
\* applies the dropped update later).
C5_DroppedNotQueued ==
    [][ /\ ( /\ lastStep'.kind = "hover"
             /\ PositionHandler(lastStep'.view) = "app"
             /\ now - lastMapUpdate <= ThrottleMs ) =>
                 /\ lastStep'.calls = 0
                 /\ UNCHANGED <<positionMarker, lastMapUpdate>>
        /\ lastStep'.kind = "tick" => UNCHANGED <<positionMarker, lastMapUpdate>> ]_vars

C5_Witness ==
    /\ lastStep.kind = "hover"
    /\ lastStep.note = "dropped"
    /\ lastStep.index = "num"
    /\ positionMarker.onMap

\* C6: a hover whose position carries no resolved trackIndex (null: the
\* viewer's dataset has no track; undefined: the viewer has no dataset)
\* never calls updatePositionIndicator, so it cannot move or break the
\* indicator.
C6_OnlyResolvedIndexForwarded ==
    (lastStep.kind = "hover" /\ lastStep.index # "num") =>
        /\ lastStep.calls = 0
        /\ lastStep.note # "map-threw"

\* C7: the ids of the POIs in the store are pairwise distinct, and the id
\* the next user POI will get is not in the store either (the counter only
\* grows and its prefix keeps it apart from the sample ids).
C7_IdsDistinct ==
    /\ \A i, j \in 1..Len(pois) : i # j => pois[i].id # pois[j].id
    /\ \A i \in 1..Len(pois) : pois[i].id # UserPoiId(poiCounter + 1)

C7_Witness ==
    /\ \E i, j \in 1..Len(pois) :
          /\ i # j
          /\ pois[i].id = UserPoiId(PoiCounterInit + 1)
          /\ pois[j].id = UserPoiId(PoiCounterInit + 2)
    /\ \E i \in 1..Len(pois) : pois[i].id = "poi-1"

\* C8: a POI is added at the end of the list, and deleting it again by the
\* last index right after the add leaves the list exactly as it was before
\* the add (same elements, same order).
C8_AddThenDeleteRestores ==
    [][ /\ lastStep'.note = "added" =>
              /\ Len(pois') = Len(pois) + 1
              /\ SubSeq(pois', 1, Len(pois)) = pois
        /\ (lastStep.note = "added" /\ DeletePOI(Len(pois) - 1)) =>
              pois' = lastStep.before ]_vars

C8_Witness ==
    /\ lastStep.kind = "delete"
    /\ lastStep.note = "undone"
    /\ Len(lastStep.before) >= 2
    /\ pois = lastStep.before

\* C9: deletePOI with an index outside 0..length-1 changes nothing (store,
\* viewer lists, map markers, sidebar, status) and raises no error; with an
\* index inside the range it removes exactly the element at that index.
C9_DeleteOutOfRangeNoOp ==
    [][ \A index \in -2..(Len(pois) + 1) :
          DeletePOI(index) =>
            IF index < 0 \/ index > Len(pois) - 1
              THEN /\ UNCHANGED <<pois, vPois, poiMarkers, poiList, status>>
                   /\ lastStep'.note # "threw"
              ELSE /\ Len(pois') = Len(pois) - 1
                   /\ \A k \in 1..Len(pois') :
                         pois'[k] = IF k <= index THEN pois[k] ELSE pois[k + 1] ]_vars

C9_Witness ==
    /\ lastStep.kind = "delete"
    /\ lastStep.note = "ignored"
    /\ Len(pois) > 0

\* C10: the POI list of viewer 1, the POI list of viewer 2, the map's
\* markers and the sidebar list show exactly the POIs of the store, in the
\* store's order.
C10_SurfacesMatchStore ==
    /\ vPois[1] = pois
    /\ vPois[2] = pois
    /\ Len(poiMarkers) = Len(pois)
    /\ Len(poiList) = Len(pois)
    /\ \A i \in 1..Len(pois) :
          /\ poiMarkers[i].label = pois[i].label
          /\ poiMarkers[i].type = pois[i].type
          /\ poiMarkers[i].lat = pois[i].lat
          /\ poiMarkers[i].lon = pois[i].lon
          /\ poiList[i].index = i - 1
          /\ poiList[i].label = pois[i].label
          /\ poiList[i].x = pois[i].slice_x
          /\ poiList[i].y = pois[i].slice_y

C10_Witness ==
    /\ lastStep.kind = "delete"
    /\ lastStep.note = "deleted"
    /\ poiCounter > PoiCounterInit
    /\ Len(pois) >= 5
    /\ vPois[1] = pois

\* C11: when a fetch of a query rejects, the load falls back: the status
\* shows the backend-unavailable message, and both viewers, the map and the
\* POI store hold the synthetic data (nothing of the query is shown).
C11_FallbackVisible ==
    lastStep.note = "fallback" =>
        /\ status = FallbackStatus
        /\ \A v \in ViewerIds : vMeta[v] = "mock" /\ vTrack[v] = "mockTrack"
        /\ mapTrack = "mockTrack"
        /\ pois = MockPOIs

\* C12: within a query the track fetch is issued only once the slice fetch
\* has resolved, the viewers and the map get remote data only when the
\* track fetch of a query resolves, and a query whose slice fetch rejects
\* ends without a track fetch.
C12_FetchOrder ==
    [][ /\ \A i \in 1..Len(queries') :
              queries'[i].pc = "track" =>
                \E j \in 1..Len(queries) :
                  \/ queries[j] = queries'[i]
                  \/ /\ j = i
                     /\ queries[j].pc = "slice"
                     /\ queries'[i].params = queries[j].params
                     /\ queries'[i].gpr # "none"
                     /\ Len(queries') = Len(queries)
        /\ (vMeta' # vMeta \/ vTrack' # vTrack \/ mapTrack' # mapTrack) =>
              \/ lastStep'.note \in {"sample", "fallback"}
              \/ \E i \in 1..Len(queries) :
                    /\ queries[i].pc = "track"
                    /\ queries' = RemoveAt(queries, i)
        /\ \A i \in 1..Len(queries) :
              (queries[i].pc = "slice" /\ FetchReject(i)) =>
                  queries' = RemoveAt(queries, i) ]_vars

C12_Witness ==
    /\ lastStep.kind = "query"
    /\ \E i \in 1..Len(queries) :
          /\ queries[i].pc = "track"
          /\ queries[i].gpr = "remoteB"
          /\ \A v \in ViewerIds : vMeta[v] # "remoteB"
    /\ mapTrack # "remoteTrackB"

\* C13: a submitted form is dispatched (onQuerySubmit is called) only if the
\* date is not empty and all four coordinate fields parse as finite
\* numbers; otherwise an error is shown and nothing is dispatched.
C13_OnlyValidDispatched ==
    lastStep.kind = "submit" =>
        IF /\ lastStep.before[1] # ""
           /\ \A k \in 2..5 : lastStep.before[k] = "num"
          THEN lastStep.calls = 1
          ELSE lastStep.calls = 0 /\ lastStep.note = "error-shown"

\* C14: after every successful load, remote or synthetic, the dataset the
\* application consults (currentData) is the one both viewers show, and a
\* dataset counts as loaded.
C14_CurrentDatasetIsLoaded ==
    lastStep.kind = "load" =>
        /\ currentData # "none"
        /\ \A v \in ViewerIds : vMeta[v] = currentData

\* C15: nothing discards a late response: whenever the track fetch of a
\* query resolves, that query's slice is loaded into both viewers and its
\* track into the map, also when a query submitted later has completed
\* before it.
C15_LateResponseOverwrites ==
    [][ \A i \in 1..Len(queries) : \A points \in {"remoteTrack", "remoteTrackB"} :
          TrackResolve(i, points) =>
            /\ \A v \in ViewerIds : vMeta'[v] = queries[i].gpr
            /\ mapTrack' = points ]_vars

C15_Witness ==
    /\ lastStep.kind = "load"
    /\ lastStep.note = "stale"
    /\ lastStep.before = <<"remoteB">>
    /\ \A v \in ViewerIds : vMeta[v] = "remote"
    /\ mapTrack = "remoteTrack"
    /\ queries = <<>>

\* C16: a track lookup with an index outside [0, length) of the track it
\* reads, or with no track, is a silent no-op; stated for
\* syncToTrackPosition after a map click: it raises no error and changes
\* neither the indicator nor the viewports nor the status (the step ends
\* "ignored").
C16_OutOfRangeSilent ==
    (/\ lastStep.kind = "mapclick"
     /\ ~(0 <= lastStep.before[1] /\ lastStep.before[1] < lastStep.before[2])) =>
        lastStep.note = "ignored"

\* C17: with no dataset loaded dataToGeoCoords returns null, and a hover on
\* such a viewer reports an undefined trackIndex, forwards nothing to the
\* map and raises no error.
C17_HoverBeforeLoad ==
    /\ \A pt \in HoverPoints :
          DataToGeoCoords("none", "none", pt[1], pt[2]) = [k |-> "null"]
    /\ (lastStep.kind = "hover" /\ vMeta[lastStep.view] = "none") =>
          /\ lastStep.index = "undef"
          /\ lastStep.calls = 0
          /\ lastStep.note = "skipped"

C17_Witness ==
    /\ lastStep.kind = "hover"
    /\ vMeta[lastStep.view] = "none"
    /\ lastStep.note = "skipped"
    /\ lastStep.index = "undef"
    /\ mileMarkerEl

\* The last step was a conversion on a viewer that holds a dataset.
Converted == lastStep.kind = "convert" /\ vMeta[lastStep.view] # "none"

\* C18: with a track of N >= 1 points the resolved trackIndex is
\* floor((sliceX / width) * (N - 1)) clamped to [0, N-1], for negative sliceX
\* and sliceX beyond the width too, and the mile marker is that point's
\* distance; with no track or an empty one both are null.
C18_TrackIndexClamped ==
    Converted =>
        LET c   == lastStep.before[1]
            w   == Dataset(vMeta[lastStep.view]).width
            n   == TrackLen(vTrack[lastStep.view])
            raw == (c.x * (n - 1)) \div w
            exp == IF raw < 0 THEN 0 ELSE IF raw > n - 1 THEN n - 1 ELSE raw
        IN  IF n >= 1
              THEN /\ c.geo.trackIndex = Num(exp)
                   /\ exp \in 0..(n - 1)
                   /\ c.geo.mile = Num(DistanceMiles(vTrack[lastStep.view], exp))
              ELSE /\ c.geo.trackIndex = NullVal
                   /\ c.geo.mile = NullVal

\* sliceX below 0 and beyond the width, on a viewer with a track
C18_Witness ==
    /\ Converted
    /\ vTrack[lastStep.view] = "sliceTrack"
    /\ lastStep.before[1].x = 9
    /\ lastStep.before[1].geo.trackIndex = Num(TrackLen("sliceTrack") - 1)

\* C19: for 0 <= sliceX < width the latitude lies between the smaller and
\* the larger of startLat and endLat, inclusive, and the longitude between
\* the two bounding longitudes, whichever end is larger.
C19_LatLonWithinBounds ==
    (Converted /\ 0 <= lastStep.before[1].x
               /\ lastStep.before[1].x < Dataset(vMeta[lastStep.view]).width) =>
        LET c == lastStep.before[1]
            m == Dataset(vMeta[lastStep.view])
        IN  /\ Min(m.startLat, m.endLat) <= c.geo.lat
            /\ c.geo.lat <= Max(m.startLat, m.endLat)
            /\ Min(m.startLon, m.endLon) <= c.geo.lon
            /\ c.geo.lon <= Max(m.startLon, m.endLon)

\* the last column of a slice that runs north to south
C19_Witness ==
    /\ Converted
    /\ vMeta[lastStep.view] = "remoteB"
    /\ lastStep.before[1].x = Dataset("remoteB").width - 1
    /\ lastStep.before[1].y = 0
    /\ lastStep.before[1].geo.lat < Dataset("remoteB").startLat
    /\ lastStep.before[1].geo.lat > Dataset("remoteB").endLat

\* C20: lat = startLat + (endLat - startLat) * sliceX / width, lon likewise,
\* depth = d0 + (d1 - d0) * sliceY / height with [d0, d1] the dataset's
\* depth_range_m, [0, 5] when it has none.
C20_LinearInterpolation ==
    Converted =>
        LET c == lastStep.before[1]
            d == vMeta[lastStep.view]
            m == Dataset(d)
            r == IF d = "mock" THEN <<0, 6>> ELSE <<0, 5>>
        IN  /\ (c.geo.lat - m.startLat) * m.width = (m.endLat - m.startLat) * c.x
            /\ (c.geo.lon - m.startLon) * m.width = (m.endLon - m.startLon) * c.x
            /\ (c.geo.depth - r[1]) * m.height = (r[2] - r[1]) * c.y

\* the sample slice at sliceX = 600 of 1200: the midpoint of the corners
C20_Witness ==
    /\ Converted
    /\ vMeta[lastStep.view] = "mock"
    /\ lastStep.before[1].x = 600
    /\ lastStep.before[1].y = 100
    /\ 2 * lastStep.before[1].geo.lat = Dataset("mock").startLat + Dataset("mock").endLat
    /\ 2 * lastStep.before[1].geo.lon = Dataset("mock").startLon + Dataset("mock").endLon
    /\ lastStep.before[1].geo.depth = 3

\* The last step was a click on the map at the position of a track point.
ClickedOn(k) ==
    /\ lastStep.kind = "mapclickat"
    /\ k < TrackLen(mapTrack)
    /\ lastStep.before[1].lat = TrackLat(mapTrack, k)
    /\ lastStep.before[1].lon = TrackLon(mapTrack, k)

\* C21: for every point k of the track the map holds,
\* findNearestTrackPoint(track[k].lat, track[k].lon) returns the point of
\* index k, also when the track has several samples at the same
\* coordinates.
C21_ExactOnTrackPoints ==
    \A k \in 0..500 : ClickedOn(k) => lastStep.before[1].nearest = Num(k)

\* C22: findNearestTrackPoint returns a point at the least distance from
\* the query and returns null exactly when that least distance exceeds
\* 0.001 degrees (a least distance equal to it is accepted) or the track is
\* absent or empty; a click whose lookup is null starts no position sync.
C22_NearestWithinThreshold ==
    lastStep.kind = "mapclickat" =>
        LET c    == lastStep.before[1]
            n    == TrackLen(mapTrack)
            d2s  == { Dist2(mapTrack, i, c.lat, c.lon) : i \in 0..(n - 1) }
            far  == n = 0 \/ \A d \in d2s : d > NearThreshold * NearThreshold
        IN  /\ (c.nearest = NullVal) <=> far
            /\ c.nearest # NullVal =>
                  \A d \in d2s : Dist2(mapTrack, c.nearest.v, c.lat, c.lon) <= d
            /\ c.nearest = NullVal => lastStep.calls = 0 /\ lastStep.note = "nolookup"

\* The loading overlays are hidden and both viewers show a dataset.
Interactive == ~loading /\ \A v \in ViewerIds : vMeta[v] # "none"

\* C23: if every fetch settles in the end, every sample load and every
\* submitted query ends with the loading overlays hidden and a dataset,
\* remote or synthetic, in both viewers: every step that ends a load leaves
\* that state, and every query in flight leads to the end of that query.
C23_AlwaysInteractiveAgain ==
    /\ [](lastStep.kind = "load" => Interactive)
    /\ \A date \in Dates :
          InFlight(date) ~> (~InFlight(date) /\ lastStep.kind = "load" /\ Interactive)
    /\ loading ~> Interactive

\* a query whose fetch was rejected has ended on the synthetic data
C23_Witness ==
    /\ lastStep.kind = "load"
    /\ lastStep.note = "fallback"
    /\ queries = <<>>
    /\ Interactive
    /\ \A v \in ViewerIds : vMeta[v] = "mock"

\* The application and viewer 1 hold the same dataset and the same track.
SameData == currentData # "none" /\ vMeta[1] = currentData /\ vTrack[1] = gpsTrack

\* C24: slice X and track index are joined by the same fraction both ways:
\* the slice X that syncToTrackPosition(k) centres the viewers on maps back
\* through dataToGeoCoords to trackIndex k, and navigateToPOI resolves for
\* a POI's slice_x the track index dataToGeoCoords resolves for it.
C24_SameFractionBothWays ==
    (SameData /\ lastStep.kind \in {"mapclick", "navigate"}
              /\ lastStep.note = "done" /\ lastStep.calls = 1) =>
        \A dataX \in 0..Dataset(currentData).width :
            viewport[1].x = "c" \o ToString(dataX) =>
                DataToGeoCoords(vMeta[1], vTrack[1], dataX, 0).trackIndex
                    = Num(lastStep.before[1])

\* C25: after every completed load, sample or remote, the application, the
\* map and both viewers hold the same track.
C25_OneTrackEverywhere ==
    lastStep.kind = "load" =>
        /\ mapTrack = gpsTrack
        /\ \A v \in ViewerIds : vTrack[v] = gpsTrack

\* C26: a viewer's _isSyncing is true whenever a relayout that syncViewport
\* started on it has not completed, also when several overlap, so the
\* relayout event of a programmatic change is never propagated.
C26_FlagCoversPending ==
    /\ \A v \in ViewerIds : relayouts[v] # <<>> => isSyncing[v]
    /\ lastStep.kind = "done" => lastStep.calls = 0

\* C27: after every syncViewport call on a viewer, whether the relayout
\* completes or fails, the viewer's _isSyncing becomes false again.
C27_FlagEventuallyCleared ==
    \A v \in ViewerIds : (isSyncing[v] = TRUE) ~> (isSyncing[v] = FALSE)

\* C28: whenever the fetches of at least one query are outstanding the
\* loading overlays of both viewers are visible, also when queries overlap
\* or the sample is loaded meanwhile.
C28_OverlayWhileInFlight ==
    queries # <<>> => loading

\* C29: the position indicator, whenever it is shown on the map, sits on a
\* point of the track the map holds now; loading a new track leaves no
\* indicator of the track it replaced.
C29_IndicatorOnCurrentTrack ==
    positionMarker.onMap =>
        /\ positionMarker.track = mapTrack
        /\ 0 <= positionMarker.index
        /\ positionMarker.index < TrackLen(mapTrack)

\* C30: a click on a viewer creates a POI only when POI mode is active and
\* a dataset is loaded; otherwise store, counter, viewers' POIs and map
\* markers stay as they are.  When it creates one, exactly one POI is
\* appended, the counter grows by one, and the POI holds the clicked
\* slice_x and slice_y with the lat, lon and mile dataToGeoCoords gives
\* for them.
C30_ClickCreatesOnlyInPoiMode ==
    [][ \A v \in ViewerIds : \A type \in PoiTypes : \A pt \in ClickPoints :
          ViewerClick(v, type, pt) =>
            IF pois' # pois
              THEN /\ poiMode
                   /\ currentData # "none"
                   /\ \A w \in ViewerIds : vMeta[w] # "none"
                   /\ Len(pois') = Len(pois) + 1
                   /\ SubSeq(pois', 1, Len(pois)) = pois
                   /\ poiCounter' = poiCounter + 1
                   /\ LET new == pois'[Len(pois')]
                          geo == DataToGeoCoords(vMeta[1], vTrack[1], pt[1], pt[2])
                      IN  /\ new.slice_x = pt[1]
                          /\ new.slice_y = pt[2]
                          /\ new.lat = geo.lat
                          /\ new.lon = geo.lon
                          /\ new.mile_marker
                                = IF geo.mile = NullVal THEN 0 ELSE geo.mile.v
              ELSE /\ ~(poiMode /\ currentData # "none")
                   /\ UNCHANGED <<pois, poiCounter, vPois, poiMarkers>> ]_vars

\* a POI made by a click in the middle of the sample slice
C30_Witness ==
    /\ lastStep.kind = "click"
    /\ lastStep.note = "added"
    /\ Len(pois) = Len(lastStep.before) + 1
    /\ poiCounter = PoiCounterInit + 1
    /\ pois[Len(pois)].slice_x = 600
    /\ 2 * pois[Len(pois)].lat = Dataset("mock").startLat + Dataset("mock").endLat
    /\ pois[Len(pois)].mile_marker = DistanceMiles("mockTrack", 249)

====
